---- MODULE Spec2Model ----
(***************************************************************************)
(* View-tracking batching pipeline of the document archive.                *)
(*                                                                         *)
(*   ViewerPage            src/src/app/viewer/[id]/page.tsx  189-223       *)
(*   trackDocumentView     src/src/app/actions.ts            232-244       *)
(*   processViewQueue      src/src/app/actions.ts            247-275       *)
(*   GET (cron endpoint)   src/unnamed/part_004              187-208       *)
(*   view_queue            src/scripts/add-view-queue-table.ts 19-25       *)
(*   document_views        src/scripts/cleanup-analytics.ts  339-345       *)
(*   AsyncSemaphore        src/scripts/convert-pdfs.ts       52-83         *)
(*   fetchComments         src/src/app/actions.ts            51-113        *)
(*   addComment            src/src/app/actions.ts            126-149       *)
(*   likeDocument          src/src/app/actions.ts            169-179       *)
(*   likeComment           src/src/app/actions.ts            181-189       *)
(*   comments, document_stats  src/scripts/cleanup-analytics.ts 317-337    *)
(*                                                                         *)
(* Every SQL statement is one atomic step; the awaits between the          *)
(* statements of one invocation are the points where other invocations     *)
(* interleave.                                                             *)
(***************************************************************************)
EXTENDS Integers, Sequences, FiniteSets, TLC

(* ------------------------------ bounds -------------------------------- *)
\* rows inserted into view_queue in one behaviour
MaxViews == 2
\* invocations of processViewQueue in one behaviour
MaxDrains == 2
\* last value of the database clock
MaxTime == 1

\* calls of addComment that reach the INSERT in one behaviour
MaxComments == 3
\* likes given in one behaviour
MaxLikes == 3
\* rows written or updated in one behaviour in which all server actions run
MaxWrites == 2
\* characters of a string passed to sanitize
MaxLength == 3
\* permits of the AsyncSemaphore (its constructor argument)
Limit == 2
\* calls of semaphore.run in one conversion
MaxTasks == 4

\* concurrent invocations of the cron endpoint
Drains == {"A", "B"}

(* ---------------------------- the manifest ---------------------------- *)
\* manifest.json, id |-> the entry has page URLs: d1 has, d3 has an empty
\* pages list
Manifest == [d1 |-> TRUE, d3 |-> FALSE]
\* route parameters a request may carry; "zz" is in no manifest entry
RequestIds == {"d1", "d3", "zz"}

\* the calls of semaphore.run, one per PDF
Tasks == 1..MaxTasks

\* values of the Authorization header a request may carry
Headers == {"absent", "Bearer s3cret", "Bearer wrong"}
\* values of process.env.CRON_SECRET; "" is the unset variable
Secrets == {"", "s3cret"}

NoResponse == [status |-> 0]

\* export const MAX_COMMENT_LENGTH, MAX_USERNAME_LENGTH
MAX_COMMENT_LENGTH == 1500
MAX_USERNAME_LENGTH == 20

\* a string is a sequence of runs: n repetitions of a sequence of characters;
\* Run(c, n) is n repetitions of the character c
Run(c, n) == [c |-> <<c>>, n |-> n]
EmptyString == << >>

\* characters of the strings passed to sanitize, and the strings: all of up
\* to MaxLength characters
Alphabet == {"a", "&", "<", ">", "\"", "'"}
Texts ==
    UNION {{[i \in 1..k |-> Run(f[i], 1)] : f \in [1..k -> Alphabet]} :
              k \in 0..MaxLength}

\* usernames a client may send: empty, as long as allowed with blanks around
\* it, and one character longer than allowed
LongestUsername == <<Run(" ", 1), Run("a", MAX_USERNAME_LENGTH), Run(" ", 1)>>
Usernames ==
    {EmptyString, LongestUsername, <<Run("a", MAX_USERNAME_LENGTH + 1)>>}

\* contents a client may send, likewise
LongestContent == <<Run(" ", 1), Run("b", MAX_COMMENT_LENGTH), Run(" ", 1)>>
Contents ==
    {EmptyString, LongestContent, <<Run("b", MAX_COMMENT_LENGTH + 1)>>}

\* usernames and contents a client may send that are blank, as long as
\* allowed, or as long as allowed and made of characters sanitize replaces
SubmittedUsernames ==
    {<<Run(" ", 2)>>, LongestUsername, <<Run("&", MAX_USERNAME_LENGTH)>>}
SubmittedContents ==
    {<<Run(" ", 2)>>, LongestContent, <<Run("'", MAX_COMMENT_LENGTH)>>}

\* SQL NULL in the column parent_id: ids start at 1 and parent_id references
\* comments(id), so no stored parent_id is 0
Null == 0

\* parentId arguments a client may send: null, or any number
ParentIds == 0..MaxComments

NoCall == [username |-> EmptyString, content |-> EmptyString, outcome |-> "none"]
NoResult == [documentId |-> "none", roots |-> << >>, replies |-> << >>]
NoText == [input |-> EmptyString, output |-> EmptyString, called |-> FALSE]
\* no like button is mounted
Unmounted ==
    [component |-> "none", documentId |-> "none", commentId |-> 0,
     initialLikes |-> 0, likes |-> 0, hasLiked |-> FALSE, call |-> "idle",
     sent |-> 0, last |-> "none"]

VARIABLES
    dbUrl,          \* process.env.DATABASE_URL is defined
    cronSecret,     \* process.env.CRON_SECRET
    now,            \* CURRENT_TIMESTAMP of the database
    view_queue,     \* table view_queue: rows [id, document_id, queued_at]
    qseq,           \* next value of view_queue's SERIAL id
    document_views, \* table document_views: rows [document_id, viewed_at, src, k];
                    \*   the SERIAL id is kept as (src, k): the row is the k-th
                    \*   copy of the view_queue row with id src
    page,           \* outcome of the latest ViewerPage render
    trk,            \* promise of the trackDocumentView call of the latest render
                    \*   ("none": the render made no call)
    documentId,     \* argument of the trackDocumentView call in flight
    pc,             \* pc[p]: statement the drain invocation p executes next
    queueCount,     \* queueCount[p]: local of processViewQueue (0 outside a call)
    resp,           \* the response the endpoint sent last
    drains,         \* invocations of processViewQueue so far
    \* history variables (observations of a run, not program state)
    inv,            \* inv[p]: what the running invocation of p saw and did
    batch,          \* the latest group of overlapping drains: the queue when its
                    \*   first drain started, whether all its drains returned so
                    \*   far, and whether it has more than one drain
    \* the conversion script
    running,        \* AsyncSemaphore.running
    queue,          \* AsyncSemaphore.queue: the waiting calls, oldest first
    task,           \* task[t]: where the call t of semaphore.run is
    \* comments and likes
    comments,       \* table comments: rows [id, document_id, username, content,
                    \*   parent_id, created_at, likes]
    cseq,           \* next value of comments' SERIAL id
    document_stats, \* table document_stats: rows [document_id, likes]
    posted,         \* the latest call of addComment: its username, its content
                    \*   and how it ended
    threads,        \* what the latest call of fetchComments returned
    liked,          \* liked[d]: calls of likeDocument(d) that succeeded (history)
    sanitized,      \* the latest call of sanitize: its input and its output
    button          \* the like button mounted in the browser

vars == <<dbUrl, cronSecret, now, view_queue, qseq, document_views, page, trk,
          documentId, pc, queueCount, resp, drains, inv, batch,
          running, queue, task,
          comments, cseq, document_stats, posted, threads,
          liked, sanitized, button>>

semaphore == <<running, queue, task>>
forum == <<comments, cseq, document_stats, posted, threads>>
others == <<liked, sanitized, button>>

tables == <<view_queue, qseq, document_views>>
viewer == <<page, trk, documentId>>
env == <<dbUrl, cronSecret>>

(* ------------------------------ helpers ------------------------------- *)
Running(p) == pc[p] # "idle"
AllIdle == \A p \in Drains : ~Running(p)

\* the document_views rows of `views` copied from the view_queue row r
ViewsOf(r, views) == {v \in views : v.src = r.id}
ViewCount(r, views) == Cardinality(ViewsOf(r, views))

\* the rows of a table for one document
OfDoc(rows, d) == {r \in rows : r.document_id = d}

\* the history of an invocation that starts: the tables it finds, and whether
\* another drain is running
NewInvocation(vq, dv, overlapped) ==
    [startQueue |-> vq, startViews |-> dv, copied |-> {},
     enqueued |-> FALSE, overlapped |-> overlapped]

\* the invocation saw no enqueue and no other drain
Alone(i) == ~i.enqueued /\ ~i.overlapped

NoInvocation == NewInvocation({}, {}, FALSE)

\* a row was enqueued while the drains ps were running
Enqueued(ps) == [q \in Drains |-> IF q \in ps /\ Running(q)
                                  THEN [inv[q] EXCEPT !.enqueued = TRUE]
                                  ELSE inv[q]]

\* another drain started while the drains ps were running
Overlapped(ps) == [q \in Drains |-> IF q \in ps /\ Running(q)
                                    THEN [inv[q] EXCEPT !.overlapped = TRUE]
                                    ELSE inv[q]]

NoBatch == [queue |-> {}, ok |-> TRUE, overlap |-> FALSE]

\* a drain of the batch ends with `result`
BatchAfter(result) == [batch EXCEPT !.ok = @ /\ result = "returned"]

(* ------------------------------- Init --------------------------------- *)
\* the deployment starts with empty tables; CRON_SECRET is one of `secrets`
Start(secrets) ==
    /\ dbUrl \in BOOLEAN
    /\ cronSecret \in secrets
    /\ now = 0
    /\ view_queue = {}
    /\ qseq = 1
    /\ document_views = {}
    /\ page = "none"
    /\ documentId = "none"
    /\ trk = "none"
    /\ pc = [p \in Drains |-> "idle"]
    /\ queueCount = [p \in Drains |-> 0]
    /\ resp = NoResponse
    /\ drains = 0
    /\ inv = [p \in Drains |-> NoInvocation]
    /\ batch = NoBatch
    /\ running = 0
    /\ queue = << >>
    /\ task = [t \in Tasks |-> "new"]
    /\ comments = {}
    /\ cseq = 1
    /\ document_stats = {}
    /\ posted = NoCall
    /\ threads = NoResult
    /\ liked = [d \in DOMAIN Manifest |-> 0]
    /\ sanitized = NoText
    /\ button = Unmounted

\* the check of CRON_SECRET is optional: the variable is unset
Init == Start({""})

\* CRON_SECRET is set or unset
InitSecured == Start(Secrets)

\* the database clock advances. Only the order of the stored timestamps is
\* observable, so the clock moves on once a stored row carries its value.
Tick ==
    /\ now < MaxTime
    /\ \/ \E r \in view_queue : r.queued_at = now
       \/ \E v \in document_views : v.viewed_at = now
       \/ \E c \in comments : c.created_at = now
    /\ now' = now + 1
    /\ UNCHANGED <<forum, semaphore, others, env, tables, viewer, pc, queueCount, resp, inv, batch, drains>>

(* ------------------- ViewerPage and trackDocumentView ------------------ *)
\* faulty variant: the catch block rethrows
OnTrackError_rethrow == "rejected"

\* what the promise of trackDocumentView becomes when the INSERT throws:
\* the catch block logs the error and the function returns normally
OnTrackError == "logged"

\* sql`...` throws before any request is sent when DATABASE_URL is not defined
SqlAvailable == dbUrl

\* a render that shows the document: with the comments and likes it fetched,
\* or with comments = [] and likes = 0 when the fetch threw
Rendered == {"rendered", "renderedEmpty"}

\* faulty variant: trackDocumentView is called inside the try block, after the
\* fetch, so a failed fetch skips it
Tracks_onlyFetched(social) == social

\* trackDocumentView(id) is called after the try/catch around the fetch of
\* comments and likes, whatever the fetch did
Tracks(social) == TRUE

\* ViewerPage up to its return; social says whether Promise.all([getComments,
\* getDocumentLikes]) resolved (both are cached, so it may resolve without the
\* database and may throw with it). Its failure is caught, so the render goes
\* on either way. The call of trackDocumentView is not awaited: the render
\* returns while the INSERT is in flight. One call is in flight at a time: the
\* INSERT is a single statement, so calls in flight together act as calls one
\* after the other.
ViewerPage(id, social) ==
    /\ trk # "pending"
    /\ qseq <= MaxViews
    /\ IF id \notin DOMAIN Manifest
         THEN /\ page' = "notFound"
              /\ trk' = "none"
              /\ documentId' = "none"
         ELSE IF ~Manifest[id]
         THEN /\ page' = "error"
              /\ trk' = "none"
              /\ documentId' = "none"
         ELSE /\ page' = IF social THEN "rendered" ELSE "renderedEmpty"
              /\ trk' = IF ~Tracks(social) THEN "none"
                        ELSE IF SqlAvailable THEN "pending" ELSE OnTrackError
              /\ documentId' = IF Tracks(social) /\ SqlAvailable THEN id ELSE "none"
    /\ UNCHANGED <<forum, semaphore, others, env, now, tables, pc, queueCount, resp, inv, batch, drains>>

\* faulty variant: queued_at is the epoch instead of the column default
InsertRow_epoch(id) == [id |-> qseq, document_id |-> id, queued_at |-> 0]

\* INSERT INTO view_queue (document_id) VALUES (id): id and queued_at are the
\* column defaults
InsertRow(id) == [id |-> qseq, document_id |-> id, queued_at |-> now]

\* the INSERT of trackDocumentView completes
trackDocumentView ==
    /\ trk = "pending"
    /\ view_queue' = view_queue \cup {InsertRow(documentId)}
    /\ qseq' = qseq + 1
    /\ trk' = "resolved"
    /\ documentId' = "none"
    /\ inv' = Enqueued(Drains)
    /\ UNCHANGED <<forum, semaphore, others, env, now, document_views, page, pc, queueCount, resp,
                   batch, drains>>

\* the INSERT of trackDocumentView throws
trackDocumentViewError ==
    /\ trk = "pending"
    /\ trk' = OnTrackError
    /\ documentId' = "none"
    /\ UNCHANGED <<forum, semaphore, others, env, now, tables, page, pc, queueCount, resp, inv, batch, drains>>

(* ---------------------- GET and processViewQueue ---------------------- *)
\* faulty variant: viewed_at is left to its column default, the time of the copy
InsertSelect_now(vq, dv) ==
    {[document_id |-> r.document_id, viewed_at |-> now, src |-> r.id,
      k |-> Cardinality({v \in dv : v.src = r.id}) + 1] : r \in vq}

\* faulty variant: rows that already have a document_views row are not copied
\* again
InsertSelect_skipCopied(vq, dv) ==
    {[document_id |-> r.document_id, viewed_at |-> r.queued_at, src |-> r.id,
      k |-> 1] : r \in {x \in vq : \A v \in dv : v.src # x.id}}

\* INSERT INTO document_views (document_id, viewed_at)
\*   SELECT document_id, queued_at FROM view_queue ORDER BY queued_at ASC
\* the rows the statement adds to dv; the ORDER BY decides only the SERIAL ids
InsertSelect(vq, dv) ==
    {[document_id |-> r.document_id, viewed_at |-> r.queued_at, src |-> r.id,
      k |-> ViewCount(r, dv) + 1] : r \in vq}

\* DELETE FROM view_queue: the rows the statement removes
DeleteFrom(vq) == vq

\* SELECT COUNT(*)::int FROM view_queue
CountQueue(vq) == Cardinality(vq)

\* faulty variant: the early return is never taken
NothingQueued_never(count) == FALSE

\* if (queueCount === 0)
NothingQueued(count) == count = 0

\* faulty variant: any bearer token is accepted
Unauthorized_anyBearer(header) == cronSecret # "" /\ header = "absent"

\* NextResponse.json({success: true, processed, timestamp: new Date()...}):
\* the server's clock is read as the database's
Json(processed) ==
    [status |-> 200, success |-> TRUE, processed |-> processed, timestamp |-> now]

\* the authorization check of GET
Unauthorized(header) == cronSecret # "" /\ header # "Bearer " \o cronSecret

\* a request reaches the cron endpoint; an authorized one calls
\* processViewQueue. B is the invocation that overlaps a running A.
GET(p, header) ==
    /\ pc[p] = "idle"
    /\ p = "A" \/ Running("A")
    /\ IF Unauthorized(header)
         THEN /\ resp' = [status |-> 401, error |-> "Unauthorized"]
              /\ UNCHANGED <<pc, inv, batch, drains>>
         ELSE /\ drains < MaxDrains
              /\ drains' = drains + 1
              /\ resp' = resp
              /\ pc' = [pc EXCEPT ![p] = "count"]
              /\ inv' = [Overlapped(Drains) EXCEPT
                            ![p] = NewInvocation(view_queue, document_views, ~AllIdle)]
              /\ batch' = IF AllIdle
                            THEN [queue |-> view_queue, ok |-> TRUE, overlap |-> FALSE]
                            ELSE [batch EXCEPT !.overlap = TRUE]
    /\ UNCHANGED <<forum, semaphore, others, env, now, tables, viewer, queueCount>>

\* the COUNT statement and the early return on an empty queue
Count(p) ==
    /\ pc[p] = "count"
    /\ SqlAvailable
    /\ IF NothingQueued(CountQueue(view_queue))
         THEN /\ pc' = [pc EXCEPT ![p] = "idle"]
              /\ queueCount' = queueCount
              /\ resp' = Json(0)
              /\ inv' = [inv EXCEPT ![p] = NoInvocation]
                        /\ batch' = BatchAfter("returned")
         ELSE /\ pc' = [pc EXCEPT ![p] = "copy"]
              /\ queueCount' = [queueCount EXCEPT ![p] = CountQueue(view_queue)]
              /\ UNCHANGED <<resp, inv, batch>>
    /\ UNCHANGED <<forum, semaphore, others, env, now, tables, viewer, drains>>

\* faulty variant: the copy statement also empties the queue
Copy_andDelete(p) ==
    /\ pc[p] = "copy"
    /\ document_views' = document_views \cup InsertSelect(view_queue, document_views)
    /\ view_queue' = {}
    /\ pc' = [pc EXCEPT ![p] = "delete"]
    /\ inv' = [inv EXCEPT ![p].copied = view_queue]
    /\ UNCHANGED <<forum, semaphore, others, env, now, qseq, viewer, queueCount, resp, batch, drains>>

\* the INSERT ... SELECT statement
Copy(p) ==
    /\ pc[p] = "copy"
    /\ document_views' = document_views \cup InsertSelect(view_queue, document_views)
    /\ pc' = [pc EXCEPT ![p] = "delete"]
    /\ inv' = [inv EXCEPT ![p].copied = view_queue]
    /\ UNCHANGED <<forum, semaphore, others, env, now, view_queue, qseq, viewer, queueCount, resp, batch, drains>>

\* the DELETE statement and the return of {processed: queueCount}
Delete(p) ==
    /\ pc[p] = "delete"
    /\ view_queue' = view_queue \ DeleteFrom(view_queue)
    /\ pc' = [pc EXCEPT ![p] = "idle"]
    /\ resp' = Json(queueCount[p])
    /\ inv' = [inv EXCEPT ![p] = NoInvocation]
    /\ batch' = BatchAfter("returned")
    /\ queueCount' = [queueCount EXCEPT ![p] = 0]
    /\ UNCHANGED <<forum, semaphore, others, env, now, qseq, document_views, viewer, drains>>

\* the statement p is at throws: processViewQueue logs and rethrows, GET
\* answers 500
Throw(p) ==
    /\ Running(p)
    /\ pc' = [pc EXCEPT ![p] = "idle"]
    /\ resp' = [status |-> 500, success |-> FALSE, error |-> "sql error"]
    /\ inv' = [inv EXCEPT ![p] = NoInvocation]
    /\ batch' = BatchAfter("threw")
    /\ queueCount' = [queueCount EXCEPT ![p] = 0]
    /\ UNCHANGED <<forum, semaphore, others, env, now, tables, viewer, drains>>

\* the invocation is interrupted before the statement p is at (the platform
\* ends the function): nothing more runs, and the platform answers 504
Interrupt(p) ==
    /\ Running(p)
    /\ pc' = [pc EXCEPT ![p] = "idle"]
    /\ inv' = [inv EXCEPT ![p] = NoInvocation]
    /\ resp' = [status |-> 504]
    /\ batch' = BatchAfter("interrupted")
    /\ queueCount' = [queueCount EXCEPT ![p] = 0]
    /\ UNCHANGED <<forum, semaphore, others, env, now, tables, viewer, drains>>

Next ==
    \/ Tick
    \/ \E id \in RequestIds, social \in BOOLEAN : ViewerPage(id, social)
    \/ trackDocumentView
    \/ trackDocumentViewError
    \/ \E p \in Drains, header \in Headers : GET(p, header)
    \/ \E p \in Drains : Count(p)
    \/ \E p \in Drains : Copy(p)
    \/ \E p \in Drains : Delete(p)
    \/ \E p \in Drains : Throw(p)
    \/ \E p \in Drains : Interrupt(p)

Spec == Init /\ [][Next]_vars

\* drains invoked one after the other, none failing or interrupted, while
\* pages are viewed
NextRepeated ==
    \/ Tick
    \/ \E id \in RequestIds, social \in BOOLEAN : ViewerPage(id, social)
    \/ trackDocumentView
    \/ trackDocumentViewError
    \/ \E header \in Headers : GET("A", header)
    \/ Count("A")
    \/ Copy("A")
    \/ Delete("A")

RepeatedDrains == Init /\ [][NextRepeated]_vars

\* the cron endpoint with CRON_SECRET set or unset, requests one at a time
NextSecured ==
    \/ NextRepeated
    \/ Throw("A")

Secured == InitSecured /\ [][NextSecured]_vars

(* ------------------------------ comments ------------------------------ *)
\* String.length
Length(str) ==
    LET RECURSIVE Sum(_)
        Sum(i) == IF i = 0 THEN 0 ELSE Len(str[i].c) * str[i].n + Sum(i - 1)
    IN Sum(Len(str))

\* String.trim: the blanks at both ends are dropped
RECURSIVE TrimStart(_)
TrimStart(str) ==
    IF str # << >> /\ Head(str).c = <<" ">> THEN TrimStart(Tail(str)) ELSE str

RECURSIVE TrimEnd(_)
TrimEnd(str) ==
    IF str # << >> /\ str[Len(str)].c = <<" ">>
      THEN TrimEnd(SubSeq(str, 1, Len(str) - 1))
      ELSE str

Trim(str) == TrimEnd(TrimStart(str))

\* the characters sanitize replaces, and the replacement of each
Special == {"&", "<", ">", "\"", "'"}

Entity(c) ==
    CASE c = "&" -> <<"&", "a", "m", "p", ";">>
      [] c = "<" -> <<"&", "l", "t", ";">>
      [] c = ">" -> <<"&", "g", "t", ";">>
      [] c = "\"" -> <<"&", "q", "u", "o", "t", ";">>
      [] c = "'" -> <<"&", "#", "x", "2", "7", ";">>

\* String.replace(/c/g, entity) on a sequence of characters
RECURSIVE ReplaceIn(_, _)
ReplaceIn(chars, c) ==
    IF chars = << >> THEN << >>
    ELSE (IF Head(chars) = c THEN Entity(c) ELSE <<Head(chars)>>)
            \o ReplaceIn(Tail(chars), c)

\* String.replace(/c/g, entity): the pattern is one character, so the
\* replacement is made inside every run
Replace(str, c) ==
    [i \in 1..Len(str) |-> [c |-> ReplaceIn(str[i].c, c), n |-> str[i].n]]

\* faulty variant: the apostrophe is left alone
sanitize_noApostrophe(input) ==
    Replace(Replace(Replace(Replace(input, "&"), "<"), ">"), "\"")

\* sanitize: the five replacements, & first
sanitize(input) ==
    Replace(Replace(Replace(Replace(Replace(input, "&"), "<"), ">"), "\""), "'")

\* a call of sanitize, the one of the behaviour
callSanitize(input) ==
    /\ ~sanitized.called
    /\ sanitized' = [input |-> input, output |-> sanitize(input), called |-> TRUE]
    /\ UNCHANGED <<liked, button, forum, semaphore, env, now, tables, viewer, pc,
                   queueCount, resp, inv, batch, drains>>

\* faulty variant: the username may be one character longer
UsernameTooLong_lax(trimmedUsername) ==
    Length(trimmedUsername) > MAX_USERNAME_LENGTH + 1

\* if (trimmedUsername.length > MAX_USERNAME_LENGTH)
UsernameTooLong(trimmedUsername) == Length(trimmedUsername) > MAX_USERNAME_LENGTH

\* if (trimmedContent.length > MAX_COMMENT_LENGTH)
ContentTooLong(trimmedContent) == Length(trimmedContent) > MAX_COMMENT_LENGTH

\* parent_id INTEGER REFERENCES comments(id): the row may reference itself
ForeignKeyHolds(parentId) ==
    \/ parentId = Null
    \/ parentId = cseq
    \/ \E c \in comments : c.id = parentId

\* addComment, whole. The sequence value a failed INSERT consumes is not
\* kept: only the order of the ids is observable. revalidatePath drops the
\* cached result of getComments, which is not kept here either.
addComment(docId, username, content, parentId) ==
    /\ cseq <= MaxComments
    /\ LET trimmedUsername == Trim(username)
           trimmedContent == Trim(content)
           outcome ==
               IF username = EmptyString \/ content = EmptyString THEN "returned"
               ELSE IF UsernameTooLong(trimmedUsername) THEN "threw"
               ELSE IF ContentTooLong(trimmedContent) THEN "threw"
               ELSE IF ~SqlAvailable THEN "threw"
               ELSE IF ~ForeignKeyHolds(parentId) THEN "threw"
               ELSE "inserted"
       IN /\ posted' = [username |-> username, content |-> content,
                       outcome |-> outcome]
          /\ IF outcome = "inserted"
               THEN /\ comments' = comments \cup
                         {[id |-> cseq, document_id |-> docId,
                           username |-> sanitize(trimmedUsername),
                           content |-> sanitize(trimmedContent),
                           parent_id |-> parentId, created_at |-> now,
                           likes |-> 0]}
                    /\ cseq' = cseq + 1
                    /\ threads' = NoResult
               ELSE UNCHANGED <<comments, cseq, threads>>
    /\ UNCHANGED <<document_stats, semaphore, others, env, now, tables, viewer, pc,
                   queueCount, resp, inv, batch, drains>>

\* the rows of `rows` in the order a stable sort by created_at gives them,
\* ascending or descending
RECURSIVE InsertSorted(_, _, _)
InsertSorted(sorted, x, ascending) ==
    IF sorted = << >> THEN <<x>>
    ELSE LET last == sorted[Len(sorted)]
             stays == IF ascending THEN last.created_at <= x.created_at
                                   ELSE last.created_at >= x.created_at
         IN IF stays THEN Append(sorted, x)
            ELSE Append(InsertSorted(SubSeq(sorted, 1, Len(sorted) - 1), x, ascending),
                        last)

RECURSIVE StableSort(_, _)
StableSort(rows, ascending) ==
    IF rows = << >> THEN << >>
    ELSE InsertSorted(StableSort(SubSeq(rows, 1, Len(rows) - 1), ascending),
                      rows[Len(rows)], ascending)

\* SELECT * FROM comments WHERE document_id = docId ORDER BY created_at DESC:
\* the orders the database may return the rows in (rows of one created_at
\* come in any order)
Select(docId) ==
    LET rows == {c \in comments : c.document_id = docId}
        n == Cardinality(rows)
    IN {s \in [1..n -> rows] :
           /\ \A i, j \in 1..n : i # j => s[i] # s[j]
           /\ \A i, j \in 1..n : i < j => s[i].created_at >= s[j].created_at}

\* the ids of a sequence of rows
Ids(rows) == [i \in 1..Len(rows) |-> rows[i].id]

\* faulty variant: the roots are left in ascending order
Roots_unsorted(allComments, commentMap) ==
    Ids(SelectSeq(allComments,
                  LAMBDA c : c.parent_id = Null \/ c.parent_id \notin commentMap))

\* the second pass and the final sort, for the roots: a comment without
\* parent_id, or whose parent is not in the map, is pushed onto rootComments
Roots(allComments, commentMap) ==
    Ids(StableSort(SelectSeq(allComments,
                             LAMBDA c : c.parent_id = Null
                                        \/ c.parent_id \notin commentMap),
                   FALSE))

\* the second pass, for the replies of the comment id: every comment whose
\* parent_id is id is pushed onto its parent's replies
Replies(allComments, id) ==
    Ids(SelectSeq(allComments, LAMBDA c : c.parent_id # Null /\ c.parent_id = id))

\* fetchComments, whole: the comments come as ids, a comment's fields are its
\* row's
fetchComments(docId) ==
    /\ SqlAvailable
    /\ \E rows \in Select(docId) :
          LET commentMap == {rows[i].id : i \in 1..Len(rows)}
              allComments == StableSort(rows, TRUE)
          IN threads' = [documentId |-> docId,
                        roots |-> Roots(allComments, commentMap),
                        replies |-> [id \in commentMap |-> Replies(allComments, id)]]
    /\ UNCHANGED <<comments, cseq, document_stats, posted, semaphore, others, env, now,
                   tables, viewer, pc, queueCount, resp, inv, batch, drains>>

\* the likes given so far: no like is ever taken back
RECURSIVE SumLikes(_)
SumLikes(rows) ==
    IF rows = {} THEN 0
    ELSE LET r == CHOOSE x \in rows : TRUE IN r.likes + SumLikes(rows \ {r})

TotalLikes == SumLikes(comments) + SumLikes(document_stats)

\* faulty variant: ON CONFLICT DO NOTHING
Upsert_doNothing(docId) ==
    IF \E r \in document_stats : r.document_id = docId
      THEN document_stats
      ELSE document_stats \cup {[document_id |-> docId, likes |-> 1]}

\* INSERT INTO document_stats (document_id, likes) VALUES (docId, 1)
\* ON CONFLICT (document_id) DO UPDATE SET likes = document_stats.likes + 1:
\* the table after the statement
Upsert(docId) ==
    IF \E r \in document_stats : r.document_id = docId
      THEN {IF r.document_id = docId THEN [r EXCEPT !.likes = @ + 1] ELSE r :
               r \in document_stats}
      ELSE document_stats \cup {[document_id |-> docId, likes |-> 1]}

\* UPDATE comments SET likes = likes + 1 WHERE id = commentId: the table after
\* the statement
LikedComment(commentId) ==
    {IF c.id = commentId THEN [c EXCEPT !.likes = @ + 1] ELSE c : c \in comments}

\* fetchDocumentLikes: result.length > 0 ? toInt(result[0]?.likes) : 0
fetchDocumentLikes(docId) ==
    IF \E r \in document_stats : r.document_id = docId
      THEN (CHOOSE r \in document_stats : r.document_id = docId).likes
      ELSE 0

\* likeDocument, called by any client
likeDocument(docId) ==
    /\ TotalLikes < MaxLikes
    /\ SqlAvailable
    /\ document_stats' = Upsert(docId)
    /\ liked' = [liked EXCEPT ![docId] = @ + 1]
    /\ UNCHANGED <<comments, cseq, posted, threads, sanitized, button, semaphore,
                   env, now, tables, viewer, pc, queueCount, resp, inv, batch,
                   drains>>

\* likeComment: UPDATE comments SET likes = likes + 1 WHERE id = commentId
likeComment(commentId) ==
    /\ TotalLikes < MaxLikes
    /\ SqlAvailable
    /\ comments' = LikedComment(commentId)
    /\ UNCHANGED <<cseq, document_stats, posted, threads, semaphore, others, env, now,
                   tables, viewer, pc, queueCount, resp, inv, batch, drains>>

(* ------------------- LikeButton and CommentItem ----------------------- *)
\* the component is mounted: useState(initialLikes), useState(false)
Mounted(component, docId, commentId, initialLikes) ==
    [component |-> component, documentId |-> docId, commentId |-> commentId,
     initialLikes |-> initialLikes, likes |-> initialLikes, hasLiked |-> FALSE,
     call |-> "idle", sent |-> 0, last |-> "mounted"]

\* ViewerPage renders LikeButton with the likes it fetched, or 0 when the
\* fetch failed
mountLikeButton(docId) ==
    /\ button.call = "idle"
    /\ \E initialLikes \in {fetchDocumentLikes(docId), 0} :
          button' = Mounted("LikeButton", docId, 0, initialLikes)
    /\ UNCHANGED <<liked, sanitized, forum, semaphore, env, now, tables, viewer,
                   pc, queueCount, resp, inv, batch, drains>>

\* CommentSection renders CommentItem for a comment
mountCommentItem ==
    /\ button.call = "idle"
    /\ \E comment \in comments :
          button' = Mounted("CommentItem", comment.document_id, comment.id,
                            comment.likes)
    /\ UNCHANGED <<liked, sanitized, forum, semaphore, env, now, tables, viewer,
                   pc, queueCount, resp, inv, batch, drains>>

\* faulty variant: the click is never ignored
AlreadyLiked_never(b) == FALSE

\* if (hasLiked) return
AlreadyLiked(b) == b.hasLiked

\* handleLike up to startTransition: the click is ignored, or the count goes up
\* and the server action is called
handleLike ==
    /\ button.component # "none"
    /\ button' = IF AlreadyLiked(button)
                   THEN [button EXCEPT !.last = "ignored"]
                   ELSE [button EXCEPT !.likes = @ + 1, !.hasLiked = TRUE,
                                       !.call = "pending", !.last = "called"]
    /\ UNCHANGED <<liked, sanitized, forum, semaphore, env, now, tables, viewer,
                   pc, queueCount, resp, inv, batch, drains>>

\* the server action the button called runs its statement and resolves
likeResolves ==
    /\ button.call = "pending"
    /\ TotalLikes < MaxLikes
    /\ SqlAvailable
    /\ IF button.component = "LikeButton"
         THEN /\ document_stats' = Upsert(button.documentId)
              /\ liked' = [liked EXCEPT ![button.documentId] = @ + 1]
              /\ comments' = comments
         ELSE /\ comments' = LikedComment(button.commentId)
              /\ UNCHANGED <<document_stats, liked>>
    /\ button' = [button EXCEPT !.call = "idle", !.sent = @ + 1, !.last = "liked"]
    /\ UNCHANGED <<cseq, posted, threads, sanitized, semaphore, env, now, tables,
                   viewer, pc, queueCount, resp, inv, batch, drains>>

\* the server action the button called throws: the catch block takes the
\* optimistic update back
likeRejects ==
    /\ button.call = "pending"
    /\ button' = [button EXCEPT !.likes = @ - 1, !.hasLiked = FALSE,
                                !.call = "idle", !.last = "failed"]
    /\ UNCHANGED <<liked, sanitized, forum, semaphore, env, now, tables, viewer,
                   pc, queueCount, resp, inv, batch, drains>>

\* documents and comments are liked, through the buttons and by other clients
NextLiking ==
    \/ addComment("d1", LongestUsername, LongestContent, Null)
    \/ \E docId \in DOMAIN Manifest : likeDocument(docId)
    \/ \E commentId \in 1..MaxComments : likeComment(commentId)
    \/ mountLikeButton("d1")
    \/ mountCommentItem
    \/ handleLike
    \/ likeResolves
    \/ likeRejects

Liking == Init /\ [][NextLiking]_vars

\* rows written or updated so far, and the one a pending call is about to write
Writes ==
    (qseq - 1) + (cseq - 1) + TotalLikes + (IF trk = "pending" THEN 1 ELSE 0)

\* every server action that writes, the drain invoked one request at a time,
\* and the reading of comments, all for the document d1 and with arguments
\* addComment accepts
NextServerActions ==
    \/ Tick
    \/ Writes < MaxWrites /\ ViewerPage("d1", TRUE)
    \/ trackDocumentView
    \/ trackDocumentViewError
    \/ \E header \in Headers : GET("A", header)
    \/ Count("A")
    \/ Copy("A")
    \/ Delete("A")
    \/ Writes < MaxWrites
         /\ \E parentId \in {Null, 1} :
               addComment("d1", LongestUsername, LongestContent, parentId)
    \/ Writes < MaxWrites /\ likeDocument("d1")
    \/ Writes < MaxWrites /\ likeComment(1)
    \/ fetchComments("d1")

ServerActions == Init /\ [][NextServerActions]_vars

\* root comments are submitted to addComment by a client that does not go
\* through the form's own checks
NextSubmissions ==
    \E username \in SubmittedUsernames, content \in SubmittedContents :
        addComment("d1", username, content, Null)

Submissions == Init /\ [][NextSubmissions]_vars

\* sanitize is called with every string
NextSanitizer == \E input \in Texts : callSanitize(input)

Sanitizer == Init /\ [][NextSanitizer]_vars

\* comments are written and read while the clock advances
NextComments ==
    \/ Tick
    \/ \E docId \in DOMAIN Manifest, username \in Usernames, content \in Contents,
          parentId \in ParentIds : addComment(docId, username, content, parentId)
    \/ fetchComments("d1")

Comments == Init /\ [][NextComments]_vars

(* --------------------------- AsyncSemaphore ---------------------------- *)
\* the calls between a completed acquire and the matching release: "acquired"
\* took a free permit, "handed" was given one by a release, "executing" runs fn
Holders == {t \in Tasks : task[t] \in {"acquired", "handed", "executing"}}

\* faulty variant: the limit is not looked at
HasPermit_always(r) == TRUE

\* if (this.running < this.limit)
HasPermit(r) == r < Limit

\* run calls acquire: with a free permit the counter goes up and the promise is
\* resolved; without one the resolver is pushed onto the queue
acquire(t) ==
    /\ task[t] = "new"
    /\ IF HasPermit(running)
         THEN /\ running' = running + 1
              /\ task' = [task EXCEPT ![t] = "acquired"]
              /\ queue' = queue
         ELSE /\ queue' = Append(queue, t)
              /\ task' = [task EXCEPT ![t] = "waiting"]
              /\ running' = running
    /\ UNCHANGED <<forum, others, env, now, tables, viewer, pc, queueCount, resp, inv, batch,
                   drains>>

\* the await of acquire resumes and run calls fn
fn(t) ==
    /\ task[t] \in {"acquired", "handed"}
    /\ task' = [task EXCEPT ![t] = "executing"]
    /\ UNCHANGED <<running, queue>>
    /\ UNCHANGED <<forum, others, env, now, tables, viewer, pc, queueCount, resp, inv, batch,
                   drains>>

\* faulty variant: the newest waiter is taken (pop instead of shift)
Shift_pop(q) == [next |-> q[Len(q)], rest |-> SubSeq(q, 1, Len(q) - 1)]

\* this.queue.shift() on a non-empty queue
Shift(q) == [next |-> Head(q), rest |-> Tail(q)]

\* fn settled (resolved or rejected) and the finally block calls release: the
\* counter goes down, and when a call waits it goes up again and the oldest
\* waiter's promise is resolved
release(t) ==
    /\ task[t] = "executing"
    /\ LET lowered == running - 1 IN
       IF queue # << >>
         THEN /\ running' = lowered + 1
              /\ queue' = Shift(queue).rest
              /\ task' = [task EXCEPT ![t] = "done", ![Shift(queue).next] = "handed"]
         ELSE /\ running' = lowered
              /\ queue' = queue
              /\ task' = [task EXCEPT ![t] = "done"]
    /\ UNCHANGED <<forum, others, env, now, tables, viewer, pc, queueCount, resp, inv, batch,
                   drains>>

\* convertPdfs: every PDF is passed to semaphore.run
NextPool ==
    \/ \E t \in Tasks : acquire(t)
    \/ \E t \in Tasks : fn(t)
    \/ \E t \in Tasks : release(t)

Pool == Init /\ [][NextPool]_vars

(* ---------------------------- step predicates -------------------------- *)
\* the invocation p returns {processed: ...} in this step
Returns(p) == Running(p) /\ pc'[p] = "idle" /\ resp'.status = 200
\* a statement of the invocation p throws in this step
Throws(p) == Running(p) /\ pc'[p] = "idle" /\ resp'.status = 500
\* the invocation p is interrupted in this step
Interrupted(p) == Running(p) /\ pc'[p] = "idle" /\ resp'.status = 504

\* v is a copy of the view_queue row r: same document, queued_at as viewed_at
Matches(v, r) ==
    v.src = r.id /\ v.document_id = r.document_id /\ v.viewed_at = r.queued_at

\* ids of the rows ever inserted into view_queue
EverQueued == 1..(qseq - 1)

\* a call of addComment ends in this step
AddCommentEnds == posted'.outcome # "none" /\ (posted' # posted \/ cseq' # cseq)

\* the rows fetchComments read for the result in `threads`
Fetched == {c \in comments : c.document_id = threads.documentId}

\* created_at of the comment id
CreatedAt(id) == (CHOOSE c \in comments : c.id = id).created_at

\* how many times id is in the list
Count_in(list, id) == Cardinality({i \in 1..Len(list) : list[i] = id})

\* the comments of the result that a reader finds going from the roots down
\* the replies lists
RECURSIVE Below(_)
Below(ids) ==
    LET RepliesOf(p) == {threads.replies[p][i] : i \in 1..Len(threads.replies[p])}
        more == ids \cup UNION {RepliesOf(p) : p \in ids}
    IN  IF more = ids THEN ids ELSE Below(more)

\* the comments in the forest, and how many times id is in it
InForest == Below({threads.roots[i] : i \in 1..Len(threads.roots)})

RECURSIVE InReplies(_, _)
InReplies(parents, id) ==
    IF parents = {} THEN 0
    ELSE LET p == CHOOSE x \in parents : TRUE
         IN Count_in(threads.replies[p], id) + InReplies(parents \ {p}, id)

Occurrences(id) == Count_in(threads.roots, id) + InReplies(InForest, id)

\* the characters of a string, one by one
RECURSIVE Repeat(_, _)
Repeat(chars, n) == IF n = 0 THEN << >> ELSE chars \o Repeat(chars, n - 1)

RECURSIVE Flatten(_)
Flatten(str) ==
    IF str = << >> THEN << >>
    ELSE Repeat(Head(str).c, Head(str).n) \o Flatten(Tail(str))

\* nothing is in progress and the queue is drained
Quiescent == AllIdle /\ trk # "pending" /\ view_queue = {}

(* ------------------------------- claims -------------------------------- *)
\* C1: with drains invoked repeatedly and none failing, every row ever
\* inserted into view_queue ends represented by exactly one document_views
\* row and absent from view_queue; stated on the states in which nothing is
\* in progress and the queue is drained.
C1_ExactlyOnce ==
    Quiescent =>
        \A id \in EverQueued : Cardinality({v \in document_views : v.src = id}) = 1

\* C2: when an invocation of processViewQueue returns, document_views holds,
\* for every document, at least as many rows as view_queue held for it when
\* the invocation started.
C2_AtLeastOnce ==
    [][\A p \in Drains :
          Returns(p) =>
             \A d \in DOMAIN Manifest :
                 Cardinality(OfDoc(document_views', d))
                     >= Cardinality(OfDoc(inv[p].startQueue, d))]_vars

\* C3: the DELETE of a drain removes only rows the drain's own copy statement
\* selected: a row enqueued between the two statements stays in view_queue.
C3_DeletesOnlyCopied ==
    [][\A p \in Drains :
          (pc[p] = "delete" /\ Returns(p)) =>
             (view_queue \ view_queue') \subseteq inv[p].copied]_vars

\* C4: drains that overlap lose no record: once all drains of a group have
\* ended, every row that was in view_queue when the first of them started has
\* a matching document_views row, or is still queued because a drain of the
\* group failed.
C4_ConcurrentDrainsLoseNothing ==
    AllIdle =>
        \A r \in batch.queue :
            \/ \E v \in document_views : Matches(v, r)
            \/ ~batch.ok /\ r \in view_queue

\* two overlapping drains have both returned, and rows were queued when the
\* first started
C4_Witness ==
    /\ AllIdle
    /\ batch.overlap /\ batch.ok
    /\ batch.queue # {}

\* C5: a drain whose COUNT reads zero returns {processed: 0} right away, with
\* no INSERT and no DELETE: both tables are as before.
C5_EmptyDrainWritesNothing ==
    [][\A p \in Drains :
          (/\ pc[p] = "count" /\ pc'[p] # "count"
           /\ ~Throws(p) /\ ~Interrupted(p)
           /\ view_queue = {})
          => /\ pc'[p] = "idle"
             /\ resp' = [status |-> 200, success |-> TRUE, processed |-> 0,
                          timestamp |-> now]
             /\ view_queue' = view_queue
             /\ document_views' = document_views]_vars

\* a drain of the empty queue has answered
C5_Witness ==
    /\ AllIdle /\ drains >= 1
    /\ resp.status = 200 /\ resp.processed = 0
    /\ view_queue = {} /\ document_views = {}

\* C6: a drain that returns, having seen no enqueue and no other drain, leaves
\* view_queue empty and has added to document_views exactly one row per row
\* that was pending, with the row's document_id and its queued_at as viewed_at.
C6_DrainMovesEveryPendingRow ==
    [][\A p \in Drains :
          (pc[p] = "delete" /\ Returns(p) /\ Alone(inv[p])) =>
             LET added == document_views' \ inv[p].startViews IN
             /\ view_queue' = {}
             /\ inv[p].startViews \subseteq document_views'
             /\ Cardinality(added) = Cardinality(inv[p].startQueue)
             /\ \A r \in inv[p].startQueue : \E v \in added : Matches(v, r)]_vars

\* the only drain so far has returned after moving every row ever queued, and
\* the clock has moved on since a row was queued
C6_Witness ==
    /\ AllIdle /\ drains = 1
    /\ resp.status = 200 /\ resp.processed = qseq - 1 /\ resp.processed >= 1
    /\ view_queue = {}
    /\ Cardinality(document_views) = qseq - 1
    /\ \E v \in document_views : v.viewed_at < now

C8_BothCopiesBeforeEitherDelete ==
    \A p, q \in Drains :
        (p # q /\ pc[p] = "delete" /\ pc[q] = "delete") =>
            \A r \in inv[p].copied \cap inv[q].copied :
                r \in view_queue /\ ViewCount(r, document_views) >= 2

\* both drains are between copy and delete and selected a common row
C8_Witness ==
    /\ pc["A"] = "delete" /\ pc["B"] = "delete"
    /\ inv["A"].copied \cap inv["B"].copied # {}

C10_TrackingNeverFailsThePage ==
    [][/\ trk' # "rejected"
       /\ trk' = "pending" => page' \in Rendered
       /\ (viewer' # viewer /\ trk' = "logged")
          => view_queue' = view_queue /\ page' \in Rendered]_vars

\* a tracking call failed after the page was rendered
C10_Witness == trk = "logged" /\ page \in Rendered

\* C11: a trackDocumentView(d) that succeeds appends exactly one view_queue
\* row, with a fresh id, document_id = d and queued_at = the current time, and
\* changes no other view_queue row and no document_views row.
C11_TrackAppendsOneRow ==
    [][(trk = "pending" /\ trk' = "resolved") =>
          /\ \E r \in view_queue' :
                /\ \A x \in view_queue : x.id # r.id
                /\ view_queue' = view_queue \cup {r}
                /\ r.document_id = documentId
                /\ r.queued_at = now
          /\ Cardinality(view_queue') = Cardinality(view_queue) + 1
          /\ document_views' = document_views]_vars

\* a view was queued after the clock moved on, next to an older row that a
\* drain has copied and not yet deleted
C11_Witness ==
    /\ trk = "resolved"
    /\ \E r, x \in view_queue :
          /\ r.queued_at = now /\ now >= 1
          /\ x.queued_at < now
          /\ \E v \in document_views : Matches(v, x)

\* C17: the processed count a drain returns is the number of rows its copy
\* statement selected and the number of rows its delete statement removed.
C17_ProcessedIsCopiedAndDeleted ==
    [][\A p \in Drains :
          (pc[p] = "delete" /\ Returns(p)) =>
             /\ resp'.processed = Cardinality(inv[p].copied)
             /\ resp'.processed = Cardinality(view_queue \ view_queue')]_vars

\* C12: with CRON_SECRET set, a request whose Authorization header is absent
\* or is not exactly "Bearer <CRON_SECRET>" is answered 401 and starts no
\* drain: no table changes. With CRON_SECRET unset every request starts a
\* drain. A drain that returns is answered with success = true, the processed
\* count and a timestamp.
C12_DrainEndpointAuthorization ==
    [][\A p \in Drains :
          /\ \A header \in Headers :
                GET(p, header) =>
                   IF cronSecret # "" /\ header # "Bearer " \o cronSecret
                     THEN /\ resp' = [status |-> 401, error |-> "Unauthorized"]
                          /\ UNCHANGED <<tables, pc, drains>>
                     ELSE pc'[p] = "count" /\ drains' = drains + 1
          /\ Returns(p) =>
                /\ resp'.success = TRUE
                /\ resp'.processed \in 0..MaxViews
                /\ resp'.timestamp = now]_vars

\* with CRON_SECRET set, a request was refused while views were queued, after
\* an authorized request had drained
C12_Witness ==
    /\ cronSecret # ""
    /\ resp.status = 401
    /\ view_queue # {} /\ document_views # {}
    /\ drains >= 1

\* C15: the calls that hold a permit (between a completed acquire and the
\* matching release) are never more than the limit, and the running counter
\* stays within 0..limit; it counts exactly those calls.
C15_PoolIsBounded ==
    /\ Cardinality(Holders) <= Limit
    /\ running \in 0..Limit
    /\ running = Cardinality(Holders)

\* every permit is taken, a call waits and a call has released
C15_Witness ==
    /\ running = Limit
    /\ queue # << >>
    /\ \E t \in Tasks : task[t] = "done"

\* C16: a release while calls wait hands the permit to the longest-waiting
\* call in the same step and keeps the counter; so whenever a call waits,
\* exactly limit calls hold a permit.
C16_ReleaseStartsOldestWaiter ==
    [][/\ queue # << >> => running = Limit /\ Cardinality(Holders) = Limit
       /\ \A t \in Tasks :
             (task[t] = "executing" /\ task'[t] = "done" /\ queue # << >>) =>
                /\ task'[Head(queue)] = "handed"
                /\ queue' = Tail(queue)
                /\ \A w \in Tasks : task'[w] = "waiting" =>
                       \E i \in 1..Len(queue') : queue'[i] = w
                /\ running' = Limit]_vars

\* a release handed its permit to the oldest of two waiting calls
C16_Witness ==
    /\ \E t \in Tasks : task[t] = "handed"
    /\ queue # << >>
    /\ running = Limit

\* C18: the result of fetchComments is a forest that holds every comment of
\* the document exactly once: a comment with no parent_id, or whose parent is
\* not among the fetched rows, is a root; every other comment is in the
\* replies of its parent and of no other comment.
C18_ForestHoldsEveryComment ==
    threads # NoResult =>
        /\ DOMAIN threads.replies = {c.id : c \in Fetched}
        /\ \A c \in Fetched :
              /\ Occurrences(c.id) = 1
              /\ IF c.parent_id = Null \/ c.parent_id \notin {x.id : x \in Fetched}
                   THEN Count_in(threads.roots, c.id) = 1
                   ELSE /\ Count_in(threads.roots, c.id) = 0
                        /\ \A p \in DOMAIN threads.replies :
                              Count_in(threads.replies[p], c.id)
                                  = IF p = c.parent_id THEN 1 ELSE 0

\* C19: in the result of fetchComments the roots are in descending order of
\* created_at and every replies list is in ascending order of created_at.
C19_RootsNewestFirstRepliesOldestFirst ==
    threads # NoResult =>
        /\ \A i, j \in 1..Len(threads.roots) :
              i < j => CreatedAt(threads.roots[i]) >= CreatedAt(threads.roots[j])
        /\ \A p \in DOMAIN threads.replies :
              \A i, j \in 1..Len(threads.replies[p]) :
                  i < j => CreatedAt(threads.replies[p][i])
                              <= CreatedAt(threads.replies[p][j])

\* a result with two roots of different created_at, and a reply
C19_Witness ==
    /\ threads # NoResult
    /\ \E i, j \in 1..Len(threads.roots) :
          CreatedAt(threads.roots[i]) > CreatedAt(threads.roots[j])
    /\ \E p \in DOMAIN threads.replies : threads.replies[p] # << >>

\* C20 as stated: a call whose trimmed username is longer than
\* MAX_USERNAME_LENGTH or whose trimmed content is longer than
\* MAX_COMMENT_LENGTH throws and leaves comments unchanged; a call whose
\* username or content is the empty string returns without inserting.
C20_OverlongThrows ==
    [][AddCommentEnds =>
          /\ (\/ Length(Trim(posted'.username)) > MAX_USERNAME_LENGTH
               \/ Length(Trim(posted'.content)) > MAX_COMMENT_LENGTH)
             => posted'.outcome = "threw" /\ comments' = comments
          /\ (posted'.username = EmptyString \/ posted'.content = EmptyString)
             => posted'.outcome = "returned" /\ comments' = comments]_vars

\* C20, amended: a call whose username or content is the empty string returns
\* without inserting, over-long or not; a call with both non-empty whose
\* trimmed username is longer than MAX_USERNAME_LENGTH or whose trimmed content
\* is longer than MAX_COMMENT_LENGTH throws; comments is unchanged in both
\* cases.
C20_RejectsWithoutWriting ==
    [][AddCommentEnds =>
          IF posted'.username = EmptyString \/ posted'.content = EmptyString
            THEN posted'.outcome = "returned" /\ comments' = comments
            ELSE (\/ Length(Trim(posted'.username)) > MAX_USERNAME_LENGTH
                  \/ Length(Trim(posted'.content)) > MAX_COMMENT_LENGTH)
                 => posted'.outcome = "threw" /\ comments' = comments]_vars

\* a call with an over-long username threw after a comment had been inserted
C20_Witness ==
    /\ posted.outcome = "threw"
    /\ Length(Trim(posted.username)) > MAX_USERNAME_LENGTH
    /\ posted.content # EmptyString
    /\ comments # {}

\* C13: view_queue is append-only: no step of any server action changes the
\* document_id or queued_at of a row that stays; rows come only from the INSERT
\* of trackDocumentView and go only with the DELETE of a drain.
C13_ViewQueueAppendOnly ==
    [][/\ \A r \in view_queue, x \in view_queue' : x.id = r.id => x = r
       /\ view_queue' \ view_queue # {} => trk = "pending" /\ trk' = "resolved"
       /\ view_queue \ view_queue' # {}
             => \E p \in Drains : pc[p] = "delete" /\ Returns(p)]_vars

\* a comment was written or a like given while a view is queued
C13_Witness ==
    /\ view_queue # {}
    /\ comments # {} \/ document_stats # {}

\* C14: document_views changes only in the copy statement of a drain, which
\* keeps every row there is and adds rows that are each the copy of a
\* view_queue row; no other server action changes the table.
C14_OnlyDrainWritesViews ==
    [][document_views' # document_views =>
          /\ \E p \in Drains : pc[p] = "copy" /\ pc'[p] = "delete"
          /\ document_views \subseteq document_views'
          /\ \A v \in document_views' \ document_views :
                \E r \in view_queue : Matches(v, r)]_vars

\* a view was recorded and a comment written or a like given
C14_Witness ==
    /\ document_views # {}
    /\ comments # {} \/ document_stats # {}

\* C23: the output of sanitize has none of the characters < > " and ', every
\* & in it begins one of the entities &amp; &lt; &gt; &quot; &#x27;, and an
\* input with none of the five characters is returned unchanged.
C23_SanitizeEscapesMarkup ==
    sanitized.called =>
        LET inp == Flatten(sanitized.input)
            out == Flatten(sanitized.output)
        IN /\ \A i \in 1..Len(out) :
                 /\ out[i] \notin {"<", ">", "\"", "'"}
                 /\ out[i] = "&" =>
                       \E c \in Special :
                          /\ i + Len(Entity(c)) - 1 <= Len(out)
                          /\ SubSeq(out, i, i + Len(Entity(c)) - 1) = Entity(c)
           /\ (\A i \in 1..Len(inp) : inp[i] \notin Special) => out = inp

\* sanitize was called with a string that has an ampersand, an apostrophe and
\* a letter
C23_Witness ==
    /\ sanitized.called
    /\ \E i, j, k \in 1..Len(sanitized.input) :
          /\ sanitized.input[i].c = <<"&">>
          /\ sanitized.input[j].c = <<"'">>
          /\ sanitized.input[k].c = <<"a">>

\* C21: every comment row addComment inserted has a username and a content
\* that are not empty: nothing is inserted for an argument that is empty or
\* made of blanks only.
C21_StoredTextNotEmpty ==
    \A c \in comments : c.username # EmptyString /\ c.content # EmptyString

\* C22: every stored username has at most MAX_USERNAME_LENGTH characters and
\* every stored content at most MAX_COMMENT_LENGTH, also for arguments with
\* characters sanitize replaces.
C22_StoredTextWithinLimits ==
    \A c \in comments :
        /\ Length(c.username) <= MAX_USERNAME_LENGTH
        /\ Length(c.content) <= MAX_COMMENT_LENGTH

\* C24: likeDocument loses no update: a document nobody liked has no
\* document_stats row and getDocumentLikes gives 0 for it; after n successful
\* calls of likeDocument(d), in any order with calls for other documents,
\* there is exactly one row for d and its likes are n.
C24_NoLikeLost ==
    \A d \in DOMAIN Manifest :
        LET rows == {r \in document_stats : r.document_id = d} IN
        IF liked[d] = 0
          THEN rows = {} /\ fetchDocumentLikes(d) = 0
          ELSE /\ rows = {[document_id |-> d, likes |-> liked[d]]}
               /\ fetchDocumentLikes(d) = liked[d]

\* d1 was liked twice and d3 once; one of the likes came through LikeButton
C24_Witness ==
    /\ liked["d1"] = 2 /\ liked["d3"] = 1
    /\ button.component = "LikeButton" /\ button.sent = 1

\* C25: a mounted like button shows the initial count plus 1 when hasLiked and
\* the initial count otherwise; a click while hasLiked calls no server action;
\* a server action that fails puts count and hasLiked back to their initial
\* values; at most one like of a mounted button succeeds.
C25_OptimisticLikeConsistent ==
    [][/\ button'.component # "none" =>
             /\ button'.likes = button'.initialLikes
                                   + (IF button'.hasLiked THEN 1 ELSE 0)
             /\ button'.sent <= 1
       /\ (handleLike /\ button.hasLiked) =>
             /\ button'.call = button.call /\ button'.sent = button.sent
             /\ button'.likes = button.likes /\ button'.hasLiked
             /\ UNCHANGED <<document_stats, comments>>
       /\ likeRejects =>
             /\ button'.likes = button.initialLikes
             /\ ~button'.hasLiked
             /\ button'.call = "idle"
             /\ UNCHANGED <<document_stats, comments>>
       /\ button'.sent > button.sent => button.call = "pending" /\ button.sent = 0
      ]_vars

\* a CommentItem whose first like failed was clicked again, liked, and clicked
\* once more
C25_Witness ==
    /\ button.component = "CommentItem"
    /\ button.sent = 1 /\ button.hasLiked
    /\ button.last = "ignored"
    /\ button.likes = 2

\* the document is in the manifest and has a non-empty pages list
HasPages(id) == id \in DOMAIN Manifest /\ Manifest[id]

\* C26: a render of ViewerPage for an unknown id or for a document without
\* pages calls nothing and enqueues nothing; a render for a document with pages
\* calls trackDocumentView exactly once, also when fetching comments or likes
\* failed; the call enqueues exactly one view of that document when its INSERT
\* succeeds and none when it fails; view_queue gets rows in no other way, so
\* every row is of a document with pages.
C26_OneTrackingCallPerRender ==
    [][/\ \A id \in RequestIds, social \in BOOLEAN :
             ViewerPage(id, social) =>
                /\ view_queue' = view_queue
                /\ IF HasPages(id)
                     THEN /\ page' = IF social THEN "rendered" ELSE "renderedEmpty"
                          /\ trk' \in {"pending", "logged"}
                          /\ trk' = "pending" <=> documentId' = id
                          /\ trk' = "logged" <=> ~SqlAvailable
                     ELSE /\ page' \notin Rendered
                          /\ trk' = "none" /\ documentId' = "none"
       /\ (trk = "pending" /\ trk' = "resolved") =>
             \E r \in view_queue' \ view_queue :
                /\ view_queue' = view_queue \cup {r}
                /\ r.document_id = documentId
       /\ (trk = "pending" /\ trk' = "logged") => view_queue' = view_queue
       /\ ~(view_queue' \subseteq view_queue) =>
             trk = "pending" /\ trk' = "resolved"
       /\ \A r \in view_queue' : HasPages(r.document_id)
      ]_vars

\* the fetch of comments and likes failed, the page was rendered without them
\* and its view was enqueued
C26_Witness ==
    /\ page = "renderedEmpty"
    /\ trk = "resolved"
    /\ \E r \in view_queue : r.document_id = "d1"

\* C26 as stated: a render for an unknown id or a document without pages
\* enqueues nothing, and every render for a document with pages enqueues
\* exactly one view.
C26_OneViewPerRender ==
    [][/\ \A id \in RequestIds, social \in BOOLEAN :
             ViewerPage(id, social) =>
                /\ view_queue' = view_queue
                /\ trk' = IF HasPages(id) THEN "pending" ELSE "none"
       /\ (trk = "pending" /\ trk' # "pending") =>
             \E r \in view_queue' \ view_queue :
                /\ view_queue' = view_queue \cup {r}
                /\ r.document_id = documentId
       /\ \A r \in view_queue' : HasPages(r.document_id)
      ]_vars

====
